---- MODULE Spec2Model ----
(***************************************************************************)
(* Track resolution of bibicord's netease source                           *)
(* (src/src/neteaseapi/netease.rs).                                        *)
(*                                                                         *)
(* A source is a NeteaseRestarter {url, client}.  Two operations run on    *)
(* it: lazy_init (the metadata probe) and call_restart (which runs         *)
(* _netease: full resolution and the ffmpeg spawn).  Every `.await` on a   *)
(* vendor request is one step of the running invocation; the vendor's      *)
(* answer is chosen nondeterministically by the step.                      *)
(*                                                                         *)
(* Option<T> is a sequence of length 0 (None) or 1 (Some).                 *)
(*                                                                         *)
(* Beside it stand the commands of src/src/main.rs that touch the volume   *)
(* table and the track queue (SpecCmd), and one run of crypto_params with  *)
(* the Signing Engine behind it (SpecSign).                                *)
(***************************************************************************)
EXTENDS Integers, Sequences, FiniteSets, TLC

VARIABLES
    url,        \* url[s]: the url field of the NeteaseRestarter s
    inv,        \* inv[s]: the locals of the lazy_init or _netease running on s,
                \*   with its position (pc), its outcome (res) and the requests it
                \*   has sent together with their answers (trace)
    calls,      \* calls[s]: how many invocations were started on s
    children,   \* children[s]: the ffmpeg children spawned for s, oldest first,
                \*   each with its arguments and the metadata of its Input
    probed,     \* probed[s]: the metadata the last successful lazy_init returned
    song_volume,\* the SongVolume table of main.rs: song_volume[c] is the entry
                \*   of text channel c (None when the map has no such key)
    handler,    \* manager.get(guild_id) of the one guild: None, or Some(the
                \*   track queue of the guild's call, first track first)
    playing,    \* playing[c]: the locals of a play command of channel c that
                \*   has read its volume and not yet taken the handler lock
    last,       \* the command whose handler ran the latest step: its name,
                \*   how it came out and, for vol, its argument
    signing     \* one run of crypto_params: the parameter map it was given
                \*   (entries in the order the map yields them), the random
                \*   key the Signing Engine drew, and its result once made

\* the state of track resolution (netease.rs) and of the commands (main.rs)
res_vars == <<url, inv, calls, children, probed>>
cmd_vars == <<song_volume, handler, playing, last>>
sign_vars == <<signing>>

vars == <<url, inv, calls, children, probed, song_volume, handler, playing, last, signing>>

(* ------------------------------ bounds --------------------------------- *)

\* invocations (probe or materialize) made on one source
MaxCalls == 3
\* entries of the `data` list of a stream-URL response
MaxData == 2

\* the sources that exist
Srcs == DOMAIN url

(* ------------------------------ URLs ----------------------------------- *)

\* A URL by its pieces: the "/#" marker, the path, the query (None, or a
\* list of key=value parameters whose value is a list of characters), and
\* whether it is written with its scheme (without it Url::parse refuses it).
Param(k, v) == [key |-> k, val |-> v]

MkUrl(h, p, q, w) == [hash |-> h, path |-> p, query |-> q, wellformed |-> w]

Urls ==
    { MkUrl(TRUE, "song", << << Param("id", <<"1">>) >> >>, TRUE),
      MkUrl(TRUE, "program", << << Param("id", <<"2">>) >> >>, TRUE),
      MkUrl(FALSE, "program", << << Param("uid", <<"7">>), Param("id", <<"1">>) >> >>, TRUE),
      MkUrl(TRUE, "song", <<>>, TRUE),
      MkUrl(FALSE, "song", << << Param("id", <<"x">>) >> >>, TRUE),
      MkUrl(TRUE, "program", << << Param("id", <<"2">>) >> >>, FALSE) }

\* the spelling of the words used in paths and parameter names
Spell ==
    [song |-> <<"s", "o", "n", "g">>, program |-> <<"p", "r", "o", "g", "r", "a", "m">>, album |-> <<"a", "l", "b", "u", "m">>,
     id |-> <<"i", "d">>, uid |-> <<"u", "i", "d">>, from |-> <<"f", "r", "o", "m">>]

Scheme == <<"h", "t", "t", "p", "s", ":", "/", "/">>

Host == <<"m", "u", "s", "i", "c", ".", "1", "6", "3", ".", "c", "o", "m">>

RECURSIVE Join(_, _)
Join(parts, sep) ==
    IF parts = <<>> THEN <<>>
    ELSE IF Len(parts) = 1 THEN parts[1]
    ELSE parts[1] \o sep \o Join(Tail(parts), sep)

\* the text of a URL, character by character: what the user typed and what
\* the String `url` holds
Render(u) ==
    (IF u.wellformed THEN Scheme ELSE <<>>)
    \o Host
    \o (IF u.hash THEN <<"/", "#">> ELSE <<>>)
    \o <<"/">> \o Spell[u.path]
    \o (IF u.query = <<>> THEN <<>>
        ELSE <<"?">> \o Join([k \in 1..Len(u.query[1]) |->
                                Spell[u.query[1][k].key] \o <<"=">> \o u.query[1][k].val],
                             <<"&">>))

StartsWith(cs, pre) == Len(cs) >= Len(pre) /\ SubSeq(cs, 1, Len(pre)) = pre

RECURSIVE Contains(_, _)
Contains(cs, pat) ==
    IF Len(cs) < Len(pat) THEN FALSE
    ELSE StartsWith(cs, pat) \/ Contains(Tail(cs), pat)

\* str::replace(pat, ""): every occurrence of pat, left to right, is dropped
RECURSIVE Remove(_, _)
Remove(cs, pat) ==
    IF Len(cs) < Len(pat) THEN cs
    ELSE IF StartsWith(cs, pat) THEN Remove(SubSeq(cs, Len(pat) + 1, Len(cs)), pat)
    ELSE <<cs[1]>> \o Remove(Tail(cs), pat)

\* the characters before the first c (all of cs when there is none)
RECURSIVE Before(_, _)
Before(cs, c) ==
    IF cs = <<>> \/ cs[1] = c THEN <<>> ELSE <<cs[1]>> \o Before(Tail(cs), c)

\* str::split(c)
RECURSIVE Split(_, _)
Split(cs, c) ==
    LET head == Before(cs, c)
    IN IF Len(head) = Len(cs) THEN <<head>>
       ELSE <<head>> \o Split(SubSeq(cs, Len(head) + 2, Len(cs)), c)

\* Url::parse followed by Url::query(): an absolute URL is needed; the
\* fragment starts at the first '#', the query at the first '?' before it.
\* The result is Err, or Ok(None), or Ok(Some(query)).
url_query(cs) ==
    IF ~(StartsWith(cs, Scheme) \/ StartsWith(cs, <<"h", "t", "t", "p", ":", "/", "/">>))
    THEN [ok |-> FALSE, val |-> <<>>]
    ELSE LET nofrag == Before(cs, "#")
             path == Before(nofrag, "?")
         IN IF Len(path) = Len(nofrag) THEN [ok |-> TRUE, val |-> <<>>]
            ELSE [ok |-> TRUE, val |-> << SubSeq(nofrag, Len(path) + 2, Len(nofrag)) >>]

Digits == <<"0", "1", "2", "3", "4", "5", "6", "7", "8", "9">>

IsDigit(c) == \E d \in 1..10 : Digits[d] = c

DigitVal(c) == (CHOOSE d \in 1..10 : Digits[d] = c) - 1

\* A u64 is kept as its decimal numeral without leading zeros.
RECURSIVE DecimalValue(_)
DecimalValue(cs) ==
    IF Len(cs) > 1 /\ cs[1] = "0" THEN DecimalValue(Tail(cs)) ELSE cs

\* u64::MAX
U64Max == <<"1", "8", "4", "4", "6", "7", "4", "4", "0", "7", "3", "7", "0", "9", "5", "5", "1", "6", "1", "5">>

\* a < b for numerals of the same length
RECURSIVE LexLess(_, _)
LexLess(a, b) ==
    IF a = <<>> THEN FALSE
    ELSE IF a[1] # b[1] THEN DigitVal(a[1]) < DigitVal(b[1])
    ELSE LexLess(Tail(a), Tail(b))

\* the checked arithmetic of the parser overflows
Overflows(n) ==
    Len(n) > Len(U64Max) \/ (Len(n) = Len(U64Max) /\ LexLess(U64Max, n))

Ok(v) == [ok |-> TRUE, val |-> <<v>>]
Err == [ok |-> FALSE, val |-> <<>>]

parse_u64_unchecked(cs) ==
    LET body == IF cs # <<>> /\ cs[1] = "+" THEN Tail(cs) ELSE cs
    IN IF body # <<>> /\ \A k \in 1..Len(body) : IsDigit(body[k])
       THEN Ok(DecimalValue(body))
       ELSE Err

\* str::parse::<u64>: an optional leading '+', then at least one digit and
\* digits only; a value above u64::MAX is an error.
parse_u64(cs) ==
    LET body == IF cs # <<>> /\ cs[1] = "+" THEN Tail(cs) ELSE cs
    IN IF body # <<>> /\ \A k \in 1..Len(body) : IsDigit(body[k])
       THEN (IF Overflows(DecimalValue(body)) THEN Err ELSE Ok(DecimalValue(body)))
       ELSE Err

\* get_music_id on the text of the URL
music_id_of(cs) ==
    LET q == url_query(cs)
    IN IF ~q.ok THEN Err
       ELSE IF q.val = <<>> THEN Err
       ELSE LET ps == Split(q.val[1], "&")
                hits == {k \in 1..Len(ps) : StartsWith(ps[k], <<"i", "d", "=">>)}
            IN IF hits = {} THEN Err
               ELSE LET p == ps[CHOOSE k \in hits : \A j \in hits : k <= j]
                    IN parse_u64(SubSeq(p, 4, Len(p)))

get_music_id_no_strip(u) == music_id_of(Render(u))

\* get_music_id: "/#" is removed, then Url::parse, query(), the first
\* parameter that starts with "id=", strip_prefix and parse::<u64>.
get_music_id(u) == music_id_of(Remove(Render(u), <<"/", "#">>))

\* url.contains("program")
contains_program(u) == Contains(Render(u), Spell.program)

NeteaseTyoe_Inverted(u) == IF contains_program(u) THEN "Normal" ELSE "Dj"

NeteaseTyoe_AlwaysNormal(u) == "Normal"

NeteaseTyoe(u) == IF contains_program(u) THEN "Dj" ELSE "Normal"

(* --------------------------- vendor payloads --------------------------- *)

\* SongDetailSong {name, artists, duration}
Songs ==
    { [name |-> <<"song">>, artists |-> << <<"a">>, <<>>, <<"b">> >>, duration |-> <<1000>>],
      [name |-> <<>>, artists |-> <<>>, duration |-> <<>>] }

\* ids a program container may wrap
InnerIds == {<<"2">>, <<"3">>}

\* DjDetailProgramMainSong {name, id, artists, duration}
MainSongs ==
    { [name |-> <<"episode">>, id |-> i, artists |-> << <<"dj">> >>, duration |-> <<2000>>]
        : i \in {<<>>} \cup {<<n>> : n \in InnerIds} }

\* DjDetail {program: Option<DjDetailProgram {mainSong: Option<..>}>}
DjDetails ==
    { [program |-> <<>>], [program |-> << [main_song |-> <<>>] >>] }
    \cup { [program |-> << [main_song |-> <<m>>] >>] : m \in MainSongs }

\* What `client.post(..).await?.json::<T>().await?` can give: a transport
\* failure, a body that does not decode as T, or a decoded T.
Failures == { [st |-> "neterr", body |-> <<>>], [st |-> "badjson", body |-> <<>>] }

Decoded(b) == [st |-> "ok", body |-> <<b>>]

\* A stream URL is signed by the vendor for the request that asked for it.
StreamUrl(s, c, i, k) == [src |-> s, call |-> c, id |-> i, k |-> k]

RECURSIVE DataList(_, _, _, _)
DataList(s, c, i, n) ==
    IF n = 0 THEN <<>>
    ELSE Append(DataList(s, c, i, n - 1), [url |-> StreamUrl(s, c, i, n)])

\* SongResult {data: Vec<SongDataResult {url}>, code}
SongResults(s, c, i) == { [data |-> DataList(s, c, i, n)] : n \in 0..MaxData }

SongDetailResults ==
    { [songs |-> <<>>] } \cup { [songs |-> <<x>>] : x \in Songs }

(* ------------------------------ metadata ------------------------------- *)

RECURSIVE filter_map_name(_)
filter_map_name(as) ==
    IF as = <<>> THEN <<>>
    ELSE (IF as[1] = <<>> THEN <<>> ELSE <<as[1][1]>>) \o filter_map_name(Tail(as))

\* the names that are present, in order (joined with ", " for display)
artist_trans(as) == filter_map_name(as)

\* impl From<&SongDetailSong> for Metadata
MetadataFromSong(x) ==
    [title |-> x.name, artist |-> <<artist_trans(x.artists)>>, duration |-> x.duration,
     channels |-> 2, sample_rate |-> 48000]

\* impl From<&DjDetailProgramMainSong> for Metadata
MetadataFromMainSong(m) ==
    [title |-> m.name, artist |-> <<artist_trans(m.artists)>>, duration |-> m.duration,
     channels |-> 2, sample_rate |-> 48000]

(* ------------------------- decoding the answers ------------------------ *)

RECURSIVE map_url(_)
map_url(data) ==
    IF data = <<>> THEN <<>> ELSE <<data[1].url>> \o map_url(Tail(data))

get_song_url_unchecked(resp) ==
    IF resp.st # "ok" THEN Err ELSE Ok(map_url(resp.body[1].data))

\* get_song_url, after the request: Err when the request or the decoding
\* failed or when the list of urls is empty.
get_song_url(resp) ==
    IF resp.st # "ok" THEN Err
    ELSE LET urls == map_url(resp.body[1].data)
         IN IF urls = <<>> THEN Err ELSE Ok(urls)

get_song_metadata_default(resp) ==
    IF resp.st # "ok" THEN Err
    ELSE IF resp.body[1].songs = <<>>
         THEN Ok([title |-> <<>>, artist |-> <<>>, duration |-> <<>>,
                  channels |-> 2, sample_rate |-> 48000])
         ELSE Ok(MetadataFromSong(resp.body[1].songs[1]))

\* get_song_metadata, after the request: songs.first() or Err
get_song_metadata(resp) ==
    IF resp.st # "ok" THEN Err
    ELSE IF resp.body[1].songs = <<>> THEN Err
         ELSE Ok(MetadataFromSong(resp.body[1].songs[1]))

\* dj_detail.program.as_ref().and_then(|x| x.main_song.as_ref())
main_song(d) == IF d.program = <<>> THEN <<>> ELSE d.program[1].main_song

\* main_song.and_then(|x| x.id)
main_song_id(ms) == IF ms = <<>> THEN <<>> ELSE ms[1].id

last_url(urls) == IF urls = <<>> THEN <<>> ELSE <<urls[Len(urls)]>>

\* urls[0]: None stands for the panic of an index out of bounds
first_url(urls) == IF urls = <<>> THEN <<>> ELSE <<urls[1]>>

\* format!("{:.3}", time.unwrap_or(0).as_secs_f64()): seconds and the three
\* decimals, from a Duration in milliseconds
format_time(time) ==
    LET ms == IF time = <<>> THEN 0 ELSE time[1]
    IN <<ms \div 1000, ms % 1000>>

(* ---------------------------- an invocation ---------------------------- *)

\* The locals of the running lazy_init or _netease of a source.
Idle ==
    [op |-> "none", pc |-> "idle", t |-> "Normal", time |-> <<>>, id |-> <<"0">>,
     main |-> <<>>, urls |-> <<>>, url |-> <<>>, meta |-> <<>>, res |-> "none",
     trace |-> <<>>]

Request(ep, id, resp) == [ep |-> ep, id |-> id, resp |-> resp]

\* The names of the request parameters and the bit rate asked for.
ParamName ==
    [ids |-> <<"i", "d", "s">>, br |-> <<"b", "r">>, c |-> <<"c">>, id |-> <<"i", "d">>]

Bitrate == <<"3", "2", "0", "0", "0", "0">>

RECURSIVE Escape(_)
\* serde_json's escaping inside a string
Escape(cs) ==
    IF cs = <<>> THEN <<>>
    ELSE (IF Head(cs) \in {"\"", "\\"} THEN <<"\\", Head(cs)>> ELSE <<Head(cs)>>)
         \o Escape(Tail(cs))

JsonString(cs) == <<"\"">> \o Escape(cs) \o <<"\"">>

JsonArray(items) == <<"[">> \o Join(items, <<",">>) \o <<"]">>

\* serde_json::to_string of Ids {id}
IdsJson(id) ==
    <<"{">> \o JsonString(ParamName.id) \o <<":">> \o JsonString(id) \o <<"}">>

\* The parameter map of each call, as the list of its inserted entries
\* <<name, value>>; an id is the decimal numeral x.to_string() gives.
dj_params(id) == << <<ParamName.id, id>> >>

song_url_params(id) ==
    << <<ParamName.ids, JsonArray(<<id>>)>>, <<ParamName.br, Bitrate>> >>

song_detail_params(id) ==
    << <<ParamName.c, JsonArray(<<IdsJson(id)>>)>>,
       <<ParamName.ids, JsonArray(<<JsonString(id)>>)>> >>

\* BASE_URL
BASE_URL == Scheme \o Host \o <<"/", "w", "e", "a", "p", "i">>

\* format!("{}/{}", BASE_URL, "/dj/program/detail")
dj_detail_url == BASE_URL \o <<"/">> \o <<"/", "d", "j", "/", "p", "r", "o", "g", "r", "a", "m", "/", "d", "e", "t", "a", "i", "l">>

\* format!("{}/song/enhance/player/url/", BASE_URL)
song_url_url == BASE_URL \o <<"/", "s", "o", "n", "g", "/", "e", "n", "h", "a", "n", "c", "e", "/", "p", "l", "a", "y", "e", "r", "/", "u", "r", "l", "/">>

\* format!("{}/song/detail", BASE_URL)
song_detail_url == BASE_URL \o <<"/", "s", "o", "n", "g", "/", "d", "e", "t", "a", "i", "l">>

\* the URL each call posts to
request_url(ep) ==
    CASE ep = "dj/program/detail" -> dj_detail_url
      [] ep = "song/enhance/player/url" -> song_url_url
      [] ep = "song/detail" -> song_detail_url

\* NeteaseClient::post keeping what an earlier post of the invocation signed
post_cached(run, i, params, ep, resp) ==
    Request(ep, i.id, resp) @@
        [url |-> request_url(ep),
         query |-> IF i.trace # <<>> THEN i.trace[Len(i.trace)].query
                   ELSE [run |-> run, of |-> params]]

\* NeteaseClient::post: crypto_params runs once, on the params handed in, and
\* its result goes into the query of this request and nowhere else.  `run`
\* names that run of crypto_params: the source, the invocation and the
\* position of the request in it.
post(run, i, params, ep, resp) ==
    Request(ep, i.id, resp) @@
        [url |-> request_url(ep), query |-> [run |-> run, of |-> params]]

\* `?`: the error is returned to the caller
Fail(i) == [i EXCEPT !.pc = "done", !.res = "err"]

Panic(i) == [i EXCEPT !.pc = "done", !.res = "panic"]

post_failed_retry(i) == IF Len(i.trace) < 4 THEN i ELSE Fail(i)

\* `client.post(..).await?.json().await?` failed
post_failed(i) == Fail(i)

\* lazy_init up to its first request: the kind of the URL and get_music_id
\* (for a program, the first statement of get_dj_music_url_and_detail)
lazy_init_begin(u) ==
    LET t == NeteaseTyoe(u)
        i == [Idle EXCEPT !.op = "probe", !.t = t]
        r == get_music_id(u)
    IN IF ~r.ok THEN Fail(i)
       ELSE [i EXCEPT !.pc = IF t = "Dj" THEN "dj" ELSE "meta", !.id = r.val[1]]

netease_begin_always_normal(u, time) ==
    LET i == [Idle EXCEPT !.op = "mat", !.t = "Normal", !.time = time]
        r == get_music_id(u)
    IN IF ~r.ok THEN Fail(i) ELSE [i EXCEPT !.pc = "url", !.id = r.val[1]]

\* _netease up to its first request: the kind of the URL and get_music_id
\* (for a program, the first statement of get_dj_music_url_and_detail)
netease_begin(u, time) ==
    LET t == NeteaseTyoe(u)
        i == [Idle EXCEPT !.op = "mat", !.t = t, !.time = time]
        r == get_music_id(u)
    IN IF ~r.ok THEN Fail(i)
       ELSE [i EXCEPT !.pc = IF t = "Dj" THEN "dj" ELSE "url", !.id = r.val[1]]

pc_after_url_always_spawn(i) ==
    IF i.t = "Dj" THEN "spawn" ELSE "meta"

pc_after_url_refetch(i) ==
    IF i.t = "Dj" /\ i.op = "probe" THEN "done" ELSE "meta"

\* where an invocation goes once it holds the stream url
pc_after_url(i) ==
    IF i.t = "Dj" THEN (IF i.op = "probe" THEN "done" ELSE "spawn") ELSE "meta"

new_input_probed(s, i) ==
    [call |-> calls[s],
     args |-> [ss |-> format_time(i.time), i |-> i.url[1], acodec |-> "pcm_f32le",
               ac |-> 2, ar |-> 48000, f |-> "s16le"],
     metadata |-> IF probed[s] # <<>> THEN probed[s][1] ELSE i.meta[1]]

\* the ffmpeg child and the Input built around it
new_input(s, i) ==
    [call |-> calls[s],
     args |-> [ss |-> format_time(i.time), i |-> i.url[1], acodec |-> "pcm_f32le",
               ac |-> 2, ar |-> 48000, f |-> "s16le"],
     metadata |-> i.meta[1]]

Times == {<<>>, <<0>>, <<61500>>}

(* ------------------------ the commands of main.rs ---------------------- *)

\* the text channels of the guild that messages come from
Channels == {"c1", "c2"}

\* the commands of the group General
Registered ==
    {"deafen", "join", "leave", "mute", "play_fade", "play", "skip", "clear", "ping",
     "undeafen", "unmute", "list", "destroy", "now", "vol", "help"}

\* the commands the text of help lists
Advertised == {"join", "play", "now", "list", "clean", "destroy", "leave", "vol"}

\* An f32: finite (m is the value in thousandths), an infinity (m is its
\* sign) or NaN.
Fin(m) == [kind |-> "fin", m |-> m]
Inf(sign) == [kind |-> "inf", m |-> sign]
NaN == [kind |-> "nan", m |-> 0]

\* 1.0, the volume of a channel that has none yet
DefaultVolume == Fin(1000)

RECURSIVE Pow10(_)
Pow10(n) == IF n = 0 THEN 1 ELSE 10 * Pow10(n - 1)

RECURSIVE NatOf(_)
\* the number a string of digits denotes
NatOf(ds) == IF ds = <<>> THEN 0 ELSE 10 * NatOf(SubSeq(ds, 1, Len(ds) - 1)) + DigitVal(ds[Len(ds)])

AllDigits(cs) == \A k \in 1..Len(cs) : IsDigit(cs[k])

\* str::to_lowercase on the letters an argument is written with
Lower(c) ==
    CASE c = "N" -> "n" [] c = "A" -> "a" [] c = "I" -> "i" [] c = "F" -> "f"
      [] c = "E" -> "e" [] OTHER -> c

to_lowercase(cs) == [k \in 1..Len(cs) |-> Lower(cs[k])]

\* str::parse::<f32>: an optional sign, then "inf", "infinity" or "nan" in
\* any case, or digits with an optional fraction and an optional exponent
\* (at least one digit in the mantissa, at least one in the exponent).
parse_f32(cs) ==
    LET neg == cs # <<>> /\ cs[1] = "-"
        body == IF cs # <<>> /\ cs[1] \in {"+", "-"} THEN Tail(cs) ELSE cs
        low == to_lowercase(body)
        mant == Before(low, "e")
        expo == IF Len(mant) = Len(low) THEN <<"0">>
                ELSE SubSeq(low, Len(mant) + 2, Len(low))
        eneg == expo # <<>> /\ expo[1] = "-"
        edig == IF expo # <<>> /\ expo[1] \in {"+", "-"} THEN Tail(expo) ELSE expo
        int == Before(mant, ".")
        frac == IF Len(int) = Len(mant) THEN <<>> ELSE SubSeq(mant, Len(int) + 2, Len(mant))
        digits == int \o frac
        scaled == NatOf(digits) * 1000
        e == NatOf(edig)
        mag == IF eneg THEN scaled \div Pow10(e + Len(frac))
               ELSE (scaled * Pow10(e)) \div Pow10(Len(frac))
    IN IF low \in {<<"i", "n", "f">>, <<"i", "n", "f", "i", "n", "i", "t", "y">>}
       THEN Ok(Inf(IF neg THEN -1 ELSE 1))
       ELSE IF low = <<"n", "a", "n">> THEN Ok(NaN)
       ELSE IF digits # <<>> /\ AllDigits(digits) /\ edig # <<>> /\ AllDigits(edig)
       THEN Ok(Fin(IF neg THEN -mag ELSE mag))
       ELSE Err

in_range_no_upper(v) == v.kind = "fin" /\ 0 <= v.m

\* (0.0..=200.0).contains(&vol): false for NaN and for the infinities
in_range(v) == v.kind = "fin" /\ 0 <= v.m /\ v.m <= 200000

\* vol / 100.0
Percent(v) == IF v.kind = "fin" THEN Fin(v.m \div 100) ELSE v

\* a track of the queue
Track(v) == [volume |-> v]

\* what a command leaves in `last`
Ran(name, outcome) == [name |-> name, arg |-> <<>>, outcome |-> outcome]

\* the same for vol, with what was written after ~vol
RanVol(arg, outcome) == [name |-> "vol", arg |-> arg, outcome |-> outcome]

\* no signing under way
NoSigning == [params |-> <<>>, key |-> <<>>, out |-> <<>>]

\* main: an empty SongVolume map is put into the client data; no call exists
Started ==
    /\ song_volume = [c \in Channels |-> <<>>]
    /\ handler = <<>>
    /\ playing = [c \in Channels |-> <<>>]
    /\ last = Ran("none", "none")

(* ------------------------------- actions ------------------------------- *)

\* NeteaseRestarter::new for every source in S; each has had n invocations
\* that left nothing behind
Fresh(S, n) ==
    /\ url \in [S -> Urls]
    /\ inv = [s \in S |-> Idle]
    /\ calls = [s \in S |-> n]
    /\ children = [s \in S |-> <<>>]
    /\ probed = [s \in S |-> <<>>]
    /\ Started
    /\ signing = NoSigning

Init == Fresh({"s1"}, 0)

CanStart(s) == inv[s].pc \in {"idle", "done"} /\ calls[s] < MaxCalls

\* Restart::lazy_init is called
LazyInit(s) ==
    /\ CanStart(s)
    /\ calls' = [calls EXCEPT ![s] = @ + 1]
    /\ inv' = [inv EXCEPT ![s] = lazy_init_begin(url[s])]
    /\ UNCHANGED <<url, children, probed>>
    /\ UNCHANGED <<cmd_vars, sign_vars>>

\* Restart::call_restart(time) is called
CallRestart(s, time) ==
    /\ CanStart(s)
    /\ calls' = [calls EXCEPT ![s] = @ + 1]
    /\ inv' = [inv EXCEPT ![s] = netease_begin(url[s], time)]
    /\ UNCHANGED <<url, children, probed>>
    /\ UNCHANGED <<cmd_vars, sign_vars>>

Settle_shared(s, i) ==
    /\ inv' = [t \in Srcs |-> IF t = s THEN i ELSE [inv[t] EXCEPT !.meta = i.meta]]
    /\ probed' = [probed EXCEPT ![s] =
                    IF i.pc = "done" /\ i.res = "ok" /\ i.op = "probe" THEN i.meta ELSE @]

\* the invocation returned: a successful probe leaves its metadata with the
\* caller
Settle(s, i) ==
    /\ inv' = [inv EXCEPT ![s] = i]
    /\ probed' = [probed EXCEPT ![s] =
                    IF i.pc = "done" /\ i.res = "ok" /\ i.op = "probe" THEN i.meta ELSE @]

\* get_dj_music_url_and_detail: the program-detail request and the mainSong
\* id of its answer
DjDetail(s) ==
    LET i == inv[s]
    IN /\ i.pc = "dj"
       /\ \E resp \in Failures \cup {Decoded(d) : d \in DjDetails} :
            LET j == [i EXCEPT !.trace = Append(@, post(<<s, calls[s], Len(i.trace) + 1>>, i, dj_params(i.id),
                                                        "dj/program/detail", resp))]
            IN IF resp.st # "ok" THEN Settle(s, post_failed(j))
               ELSE LET ms == main_song(resp.body[1])
                        id == main_song_id(ms)
                    IN IF id = <<>> THEN Settle(s, Fail(j))
                       ELSE Settle(s, [j EXCEPT !.pc = "url", !.id = id[1], !.main = ms])
       /\ UNCHANGED <<url, calls, children>>
       /\ UNCHANGED <<cmd_vars, sign_vars>>

\* get_song_url and the read of urls[0] that follows it
GetSongUrl(s) ==
    LET i == inv[s]
    IN /\ i.pc = "url"
       /\ \E resp \in Failures \cup {Decoded(d) : d \in SongResults(s, calls[s], i.id)} :
            LET j == [i EXCEPT !.trace = Append(@, post(<<s, calls[s], Len(i.trace) + 1>>, i, song_url_params(i.id),
                                                        "song/enhance/player/url", resp))]
                r == get_song_url(resp)
            IN IF resp.st # "ok" THEN Settle(s, post_failed(j))
               ELSE IF ~r.ok THEN Settle(s, Fail(j))
               ELSE LET urls == r.val[1]
                        u0 == first_url(urls)
                        m == IF j.t = "Dj" THEN <<MetadataFromMainSong(j.main[1])>> ELSE j.meta
                    IN IF u0 = <<>> THEN Settle(s, Panic([j EXCEPT !.urls = urls]))
                       ELSE LET k == [j EXCEPT !.urls = urls, !.url = u0, !.meta = m]
                                n == pc_after_url(k)
                            IN Settle(s, [k EXCEPT !.pc = n,
                                                   !.res = IF n = "done" THEN "ok" ELSE @])
       /\ UNCHANGED <<url, calls, children>>
       /\ UNCHANGED <<cmd_vars, sign_vars>>

\* get_song_metadata
GetSongMetadata(s) ==
    LET i == inv[s]
    IN /\ i.pc = "meta"
       /\ \E resp \in Failures \cup {Decoded(d) : d \in SongDetailResults} :
            LET j == [i EXCEPT !.trace = Append(@, post(<<s, calls[s], Len(i.trace) + 1>>, i, song_detail_params(i.id),
                                                        "song/detail", resp))]
                r == get_song_metadata(resp)
            IN IF resp.st # "ok" THEN Settle(s, post_failed(j))
               ELSE IF ~r.ok THEN Settle(s, Fail(j))
               ELSE IF j.op = "probe"
                    THEN Settle(s, [j EXCEPT !.meta = r.val, !.pc = "done", !.res = "ok"])
                    ELSE Settle(s, [j EXCEPT !.meta = r.val, !.pc = "spawn"])
       /\ UNCHANGED <<url, calls, children>>
       /\ UNCHANGED <<cmd_vars, sign_vars>>

\* Command::new("ffmpeg")..spawn()? and Input::new
SpawnFfmpeg(s) ==
    LET i == inv[s]
    IN /\ i.pc = "spawn"
       /\ \E spawned \in BOOLEAN :
            IF spawned
            THEN /\ children' = [children EXCEPT ![s] = Append(@, new_input(s, i))]
                 /\ Settle(s, [i EXCEPT !.pc = "done", !.res = "ok"])
            ELSE /\ UNCHANGED children
                 /\ Settle(s, Fail(i))
       /\ UNCHANGED <<url, calls>>
       /\ UNCHANGED <<cmd_vars, sign_vars>>

Next ==
    \/ \E s \in Srcs : LazyInit(s)
    \/ \E s \in Srcs, time \in Times : CallRestart(s, time)
    \/ \E s \in Srcs : DjDetail(s)
    \/ \E s \in Srcs : GetSongUrl(s)
    \/ \E s \in Srcs : GetSongMetadata(s)
    \/ \E s \in Srcs : SpawnFfmpeg(s)

Spec == Init /\ [][Next]_vars

\* values of an id parameter: numerals (small, with leading zeros, the test's
\* id, u64::MAX), and texts that are no u64
IdVals ==
    { <<"1">>, <<"0", "0", "7">>, <<"2", "6", "2", "0", "9", "6", "7", "0">>, U64Max,
      <<"1", "8", "4", "4", "6", "7", "4", "4", "0", "7", "3", "7", "0", "9", "5", "5", "1", "6", "1", "6">>, <<"9", "9", "9", "9", "9", "9", "9", "9", "9", "9", "9", "9", "9", "9", "9", "9", "9", "9", "9", "9">>, <<>>, <<"x">>, <<"-", "1">>, <<"1", "x">>,
      <<"+", "5">>, <<"1", ".", "5">> }

IdParams == { Param("id", v) : v \in IdVals }

OtherParams == { Param("uid", <<"7">>), Param("from", Spell.program) }

Queries ==
    { <<>> }
    \cup { << <<p>> >> : p \in IdParams \cup OtherParams }
    \cup { << <<o, p>> >> : o \in OtherParams, p \in IdParams }
    \cup { << <<p, o>> >> : o \in OtherParams, p \in IdParams }
    \cup { << <<Param("id", <<"1">>), Param("id", <<"2">>)>> >> }

UrlCases ==
    { MkUrl(h, p, q, w) : h \in BOOLEAN, p \in {"song", "program", "album"},
                          q \in Queries, w \in BOOLEAN }

\* One source whose URL is any of the cases above, with one invocation left.
InitUrl ==
    /\ url \in [{"s1"} -> UrlCases]
    /\ inv = [s \in {"s1"} |-> Idle]
    /\ calls = [s \in {"s1"} |-> MaxCalls - 1]
    /\ children = [s \in {"s1"} |-> <<>>]
    /\ probed = [s \in {"s1"} |-> <<>>]
    /\ Started
    /\ signing = NoSigning

SpecUrl == InitUrl /\ [][Next]_vars

\* Two sources, each with one invocation left, resolved concurrently: the
\* steps of the two invocations interleave in every order.  Their URLs are
\* a song, a program and a song whose id is no number.
InitConc ==
    /\ Fresh({"s1", "s2"}, MaxCalls - 1)
    /\ \A s \in {"s1", "s2"} :
         /\ url[s].wellformed
         /\ url[s].query # <<>>
         /\ Len(url[s].query[1]) = 1

SpecConc == InitConc /\ [][Next]_vars

(* ------------------------- the command handlers ------------------------ *)

\* tracks the queue of the call holds at most
MaxQueue == 2

\* what a user writes after ~play: nothing, a URL, or a URL without its
\* scheme
PlayArgs ==
    { <<>>,
      << MkUrl(TRUE, "song", << << Param("id", <<"1">>) >> >>, TRUE) >>,
      << MkUrl(TRUE, "program", << << Param("id", <<"2">>) >> >>, FALSE) >> }

\* what a user writes after ~vol
VolArgs ==
    { <<>>, <<"0">>, <<"2", "0", "0">>, <<"2", "0", "1">>, <<"-", "1">>,
      <<"1", "e", "2">>, <<"N", "a", "N">>, <<"a", "b", "c">> }

Http == <<"h", "t", "t", "p">>

\* song_volume.entry(channel).or_insert(1.0)
or_insert(table, c) == IF table[c] = <<>> THEN [table EXCEPT ![c] = <<DefaultVolume>>] ELSE table

\* join: the call of the guild is made if there is none (songbird's
\* manager.join), provided the author sits in a voice channel
join(c) ==
    /\ \E inVoice \in BOOLEAN :
         IF inVoice
         THEN /\ handler' = IF handler = <<>> THEN << <<>> >> ELSE handler
              /\ last' = Ran("join", "ok")
         ELSE /\ last' = Ran("join", "refused")
              /\ UNCHANGED handler
    /\ UNCHANGED <<song_volume, playing>>
    /\ UNCHANGED <<res_vars, sign_vars>>

\* leave: the entry of the channel goes, then the call of the guild
leave(c) ==
    /\ song_volume' = [song_volume EXCEPT ![c] = <<>>]
    /\ handler' = <<>>
    /\ last' = Ran("leave", IF handler # <<>> THEN "ok" ELSE "refused")
    /\ UNCHANGED playing
    /\ UNCHANGED <<res_vars, sign_vars>>

\* play up to `let volume = ..`: the checks of the argument and the read of
\* the channel's volume (inserting 1.0 when there is none)
play_begin(c, arg) ==
    /\ playing[c] = <<>>
    /\ IF arg = <<>> \/ ~StartsWith(Render(arg[1]), Http)
       THEN /\ last' = Ran("play", "refused")
            /\ UNCHANGED <<song_volume, playing>>
       ELSE /\ song_volume' = or_insert(song_volume, c)
            /\ playing' = [playing EXCEPT ![c] =
                             << [volume |-> or_insert(song_volume, c)[c][1], url |-> arg[1]] >>]
            /\ last' = Ran("play", "pending")
    /\ UNCHANGED handler
    /\ UNCHANGED <<res_vars, sign_vars>>

\* play from manager.get on, under the lock of the handler: the source is
\* made (netease_restartable(url, true) runs lazy_init, which fails at once
\* on a URL without id and may fail on any), enqueued, and the new last
\* track gets the volume read before
play_enqueue(c) ==
    /\ playing[c] # <<>>
    /\ LET p == playing[c][1]
       IN IF handler = <<>>
          THEN /\ last' = Ran("play", "refused")
               /\ UNCHANGED handler
          ELSE \E sourced \in (IF get_music_id(p.url).ok THEN BOOLEAN ELSE {FALSE}) :
                 IF sourced
                 THEN /\ Len(handler[1]) < MaxQueue
                      /\ handler' = << Append(handler[1], Track(p.volume)) >>
                      /\ last' = Ran("play", "ok")
                 ELSE /\ last' = Ran("play", "refused")
                      /\ UNCHANGED handler
    /\ playing' = [playing EXCEPT ![c] = <<>>]
    /\ UNCHANGED song_volume
    /\ UNCHANGED <<res_vars, sign_vars>>

\* vol, under the lock of the handler: without argument it reports the
\* volume; with one, the argument is parsed as f32, checked against
\* 0.0..=200.0, stored for the channel as a fraction and given to every
\* track of the queue.  (The message about 'e', '-' and '+' is followed by
\* no return.)
vol(c, arg) ==
    LET r == parse_f32(arg)
    IN /\ IF handler = <<>>
          THEN /\ last' = RanVol(arg, "silent")
               /\ UNCHANGED <<song_volume, handler>>
          ELSE IF arg = <<>>
          THEN /\ last' = RanVol(arg, "ok")
               /\ UNCHANGED <<song_volume, handler>>
          ELSE IF ~r.ok
          THEN /\ last' = RanVol(arg, "refused")
               /\ UNCHANGED <<song_volume, handler>>
          ELSE IF ~in_range(r.val[1])
          THEN /\ last' = RanVol(arg, "out of range")
               /\ UNCHANGED <<song_volume, handler>>
          ELSE LET v == Percent(r.val[1])
               IN /\ song_volume' = [song_volume EXCEPT ![c] = <<v>>]
                  /\ handler' = << [k \in 1..Len(handler[1]) |-> Track(v)] >>
                  /\ last' = RanVol(arg, "ok")
       /\ UNCHANGED playing
       /\ UNCHANGED <<res_vars, sign_vars>>

\* clear: queue.stop() empties the queue of the call
clear(c) ==
    /\ IF handler = <<>>
       THEN /\ last' = Ran("clear", "refused")
            /\ UNCHANGED handler
       ELSE /\ handler' = << <<>> >>
            /\ last' = Ran("clear", "ok")
    /\ UNCHANGED <<song_volume, playing>>
    /\ UNCHANGED <<res_vars, sign_vars>>

\* destroy: clear, then leave
destroy(c) ==
    /\ song_volume' = [song_volume EXCEPT ![c] = <<>>]
    /\ handler' = <<>>
    /\ last' = Ran("destroy", IF handler # <<>> THEN "ok" ELSE "refused")
    /\ UNCHANGED playing
    /\ UNCHANGED <<res_vars, sign_vars>>

\* now: "List is empty!" is followed by no return, and list.first().unwrap()
\* panics on the empty queue
now(c) ==
    /\ last' = Ran("now", IF handler = <<>> THEN "silent"
                                ELSE IF handler[1] = <<>> THEN "panic" ELSE "ok")
    /\ UNCHANGED <<song_volume, handler, playing>>
    /\ UNCHANGED <<res_vars, sign_vars>>

\* list and help only write to the channel
show(c, name) ==
    /\ name \in {"list", "help"}
    /\ last' = Ran(name, IF name = "list" /\ handler = <<>> THEN "silent" ELSE "ok")
    /\ UNCHANGED <<song_volume, handler, playing>>
    /\ UNCHANGED <<res_vars, sign_vars>>

\* what a user writes after ~skip
SkipArgs == { <<>>, <<"0">>, <<"1">>, <<"2">>, <<"a", "b", "c">> }

\* the same as Ran for skip, with what was written after ~skip
RanSkip(arg, outcome) == [name |-> "skip", arg |-> arg, outcome |-> outcome]

dequeue_next(q, k) == SubSeq(q, 1, k + 1) \o SubSeq(q, k + 3, Len(q))

\* queue.dequeue(k): the track at index k, counted from 0, leaves the queue
dequeue(q, k) == SubSeq(q, 1, k) \o SubSeq(q, k + 2, Len(q))

\* skip, under the lock of the handler: without argument queue.skip() ends
\* the current track, which leaves the queue; with an index from 1 to the
\* length of the queue, that track is dequeued; another number is answered
\* with a message, and what is no usize with nothing
skip(c, arg) ==
    LET r == parse_u64(arg)
    IN /\ IF handler = <<>>
          THEN /\ last' = RanSkip(arg, "refused")
               /\ UNCHANGED handler
          ELSE IF arg = <<>>
          THEN /\ handler' = << IF handler[1] = <<>> THEN <<>> ELSE Tail(handler[1]) >>
               /\ last' = RanSkip(arg, "ok")
          ELSE IF ~r.ok
          THEN /\ last' = RanSkip(arg, "ok")
               /\ UNCHANGED handler
          ELSE LET index == NatOf(r.val[1])
               IN IF index < 1 \/ index > Len(handler[1])
                  THEN /\ last' = RanSkip(arg, "out of range")
                       /\ UNCHANGED handler
                  ELSE /\ handler' = << dequeue(handler[1], index - 1) >>
                       /\ last' = RanSkip(arg, "ok")
       /\ UNCHANGED <<song_volume, playing>>
       /\ UNCHANGED <<res_vars, sign_vars>>

\* a message "~name" whose name is no command of the group: the framework
\* runs no handler
unrecognised(c, name) ==
    /\ name \notin Registered
    /\ last' = Ran(name, "unrecognised")
    /\ UNCHANGED <<song_volume, handler, playing>>
    /\ UNCHANGED <<res_vars, sign_vars>>

\* a message of a user in channel c
NextCmd ==
    \/ \E c \in Channels : join(c)
    \/ \E c \in Channels : leave(c)
    \/ \E c \in Channels, arg \in PlayArgs : play_begin(c, arg)
    \/ \E c \in Channels : play_enqueue(c)
    \/ \E c \in Channels, arg \in VolArgs : vol(c, arg)
    \/ \E c \in Channels : clear(c)
    \/ \E c \in Channels, arg \in SkipArgs : skip(c, arg)
    \/ \E c \in Channels : destroy(c)
    \/ \E c \in Channels : now(c)
    \/ \E c \in Channels, name \in {"list", "help"} : show(c, name)
    \/ \E c \in Channels, name \in Advertised \ Registered : unrecognised(c, name)

\* the bot with no netease source made yet
InitCmd == Fresh({}, 0)

SpecCmd == InitCmd /\ [][NextCmd]_vars

\* the messages of one text channel only
OneChannel == "c1"

NextChan ==
    \/ join(OneChannel)
    \/ leave(OneChannel)
    \/ \E arg \in PlayArgs : play_begin(OneChannel, arg)
    \/ play_enqueue(OneChannel)
    \/ \E arg \in VolArgs : vol(OneChannel, arg)
    \/ clear(OneChannel)
    \/ \E arg \in SkipArgs : skip(OneChannel, arg)
    \/ destroy(OneChannel)
    \/ now(OneChannel)
    \/ \E name \in {"list", "help"} : show(OneChannel, name)
    \/ \E name \in Advertised \ Registered : unrecognised(OneChannel, name)

SpecChan == InitCmd /\ [][NextChan]_vars

(* --------------------------- the Signing Engine ------------------------ *)
(* Crypto::weapi lives in the module encrypto, which is declared in        *)
(* neteaseapi/mod.rs and whose file is not among the sources; it is        *)
(* written here from section 4.2 of the specification.  The block cipher   *)
(* and the modulus are small stand-ins of the same shape as AES-128 and    *)
(* the vendor's 1024-bit modulus: a keyed, invertible permutation of       *)
(* 16-byte blocks, and a modulus that fits machine integers.  Chaining,    *)
(* padding, base64, the byte reversal, the exponent and the hex width are  *)
(* those of the specification.                                             *)

\* the printable characters, in the order of their codes 32..126 (the grave
\* accent, code 96, by its name)
Ascii ==
    <<" ", "!", "\"", "#", "$", "%", "&", "'", "(", ")", "*", "+", ",", "-", ".", "/",
       "0", "1", "2", "3", "4", "5", "6", "7", "8", "9", ":", ";", "<", "=", ">", "?",
       "@", "A", "B", "C", "D", "E", "F", "G", "H", "I", "J", "K", "L", "M", "N", "O",
       "P", "Q", "R", "S", "T", "U", "V", "W", "X", "Y", "Z", "[", "\\", "]", "^", "_",
       "grave", "a", "b", "c", "d", "e", "f", "g", "h", "i", "j", "k", "l", "m", "n", "o",
       "p", "q", "r", "s", "t", "u", "v", "w", "x", "y", "z", "{", "|", "}", "~" >>

\* the byte of a character and the character of a byte
Code(c) == 31 + (CHOOSE k \in 1..Len(Ascii) : Ascii[k] = c)
Chr(b) == Ascii[b - 31]

Bytes(cs) == [k \in 1..Len(cs) |-> Code(cs[k])]
Chars(bs) == [k \in 1..Len(bs) |-> Chr(bs[k])]

\* the block size of the cipher, in bytes
BlockSize == 16

\* the fixed passphrase and the fixed IV of the scheme
Passphrase == <<"0", "C", "o", "J", "U", "m", "6", "Q", "y", "w", "8", "W", "8", "j", "u", "d">>
Iv == <<"0", "1", "0", "2", "0", "3", "0", "4", "0", "5", "0", "6", "0", "7", "0", "8">>

RECURSIVE XorBits(_, _, _)
XorBits(a, b, n) ==
    IF n = 0 THEN 0
    ELSE 2 * XorBits(a \div 2, b \div 2, n - 1) + ((a + b) % 2)

\* a xor b on bytes
Xor(a, b) == XorBits(a, b, 8)

\* PKCS#7: 1 to 16 bytes, each of them their number
Pkcs7Pad(bs) ==
    LET n == BlockSize - (Len(bs) % BlockSize)
    IN bs \o [k \in 1..n |-> n]

Pkcs7Unpad(bs) == SubSeq(bs, 1, Len(bs) - bs[Len(bs)])

\* the stand-in for the AES-128 block encryption under key k, and its inverse
EncryptBlock(k, b) == [i \in 1..BlockSize |-> (b[(i % BlockSize) + 1] + k[i]) % 256]

DecryptBlock(k, c) ==
    [j \in 1..BlockSize |->
        LET i == IF j = 1 THEN BlockSize ELSE j - 1
        IN (c[i] - k[i] + 256) % 256]

XorBlock(a, b) == [i \in 1..BlockSize |-> Xor(a[i], b[i])]

Block(bs, n) == SubSeq(bs, (n - 1) * BlockSize + 1, n * BlockSize)

RECURSIVE CbcEncrypt(_, _, _)
\* CBC: every block is xored with the cipher block before it (the IV first)
CbcEncrypt(k, prev, bs) ==
    IF bs = <<>> THEN <<>>
    ELSE LET c == EncryptBlock(k, XorBlock(Block(bs, 1), prev))
         IN c \o CbcEncrypt(k, c, SubSeq(bs, BlockSize + 1, Len(bs)))

RECURSIVE CbcDecrypt(_, _, _)
CbcDecrypt(k, prev, cs) ==
    IF cs = <<>> THEN <<>>
    ELSE LET c == Block(cs, 1)
         IN XorBlock(DecryptBlock(k, c), prev)
            \o CbcDecrypt(k, c, SubSeq(cs, BlockSize + 1, Len(cs)))

Base64Alphabet ==
    <<"A", "B", "C", "D", "E", "F", "G", "H", "I", "J", "K", "L", "M", "N", "O", "P",
       "Q", "R", "S", "T", "U", "V", "W", "X", "Y", "Z", "a", "b", "c", "d", "e", "f",
       "g", "h", "i", "j", "k", "l", "m", "n", "o", "p", "q", "r", "s", "t", "u", "v",
       "w", "x", "y", "z", "0", "1", "2", "3", "4", "5", "6", "7", "8", "9", "+", "/" >>

Base64Index(c) == (CHOOSE k \in 1..64 : Base64Alphabet[k] = c) - 1

RECURSIVE Base64Encode(_)
\* three bytes give four characters; a rest of one or two bytes is filled
\* with '='
Base64Encode(bs) ==
    IF bs = <<>> THEN <<>>
    ELSE LET n == IF Len(bs) >= 3 THEN 3 ELSE Len(bs)
             b1 == bs[1]
             b2 == IF n >= 2 THEN bs[2] ELSE 0
             b3 == IF n >= 3 THEN bs[3] ELSE 0
             v == (b1 * 256 + b2) * 256 + b3
         IN << Base64Alphabet[(v \div 262144) + 1],
               Base64Alphabet[((v \div 4096) % 64) + 1],
               IF n >= 2 THEN Base64Alphabet[((v \div 64) % 64) + 1] ELSE "=",
               IF n >= 3 THEN Base64Alphabet[(v % 64) + 1] ELSE "=" >>
            \o Base64Encode(SubSeq(bs, n + 1, Len(bs)))

RECURSIVE Base64Decode(_)
Base64Decode(cs) ==
    IF cs = <<>> THEN <<>>
    ELSE LET n == IF cs[3] = "=" THEN 1 ELSE IF cs[4] = "=" THEN 2 ELSE 3
             i3 == IF n >= 2 THEN Base64Index(cs[3]) ELSE 0
             i4 == IF n >= 3 THEN Base64Index(cs[4]) ELSE 0
             v == ((Base64Index(cs[1]) * 64 + Base64Index(cs[2])) * 64 + i3) * 64 + i4
         IN SubSeq(<< v \div 65536, (v \div 256) % 256, v % 256 >>, 1, n)
            \o Base64Decode(SubSeq(cs, 5, Len(cs)))

\* one pass: CBC with PKCS#7 padding under the key and the fixed IV, then
\* base64
aes_encrypt(text, key) ==
    Base64Encode(CbcEncrypt(Bytes(key), Bytes(Iv), Pkcs7Pad(Bytes(text))))

\* the reverse path of one pass
aes_decrypt(text, key) ==
    Chars(Pkcs7Unpad(CbcDecrypt(Bytes(key), Bytes(Iv), Base64Decode(text))))

\* the stand-in for the vendor's modulus (151 * 211), its declared length in
\* bytes, and the exponent
Modulus == 31861
ModulusBytes == 128
Exponent == 65537

Reverse(xs) == [k \in 1..Len(xs) |-> xs[Len(xs) + 1 - k]]

RECURSIVE BigEndianMod(_, _)
\* the number the bytes spell, most significant first, modulo n
BigEndianMod(bs, n) ==
    IF bs = <<>> THEN 0
    ELSE (BigEndianMod(SubSeq(bs, 1, Len(bs) - 1), n) * 256 + bs[Len(bs)]) % n

RECURSIVE ModPow(_, _, _)
ModPow(b, e, n) ==
    IF e = 0 THEN 1 % n
    ELSE LET h == ModPow(b, e \div 2, n)
             sq == (h * h) % n
         IN IF e % 2 = 1 THEN (sq * b) % n ELSE sq

HexDigits ==
    <<"0", "1", "2", "3", "4", "5", "6", "7", "8", "9", "a", "b", "c", "d", "e", "f">>

RECURSIVE Hex(_)
\* the hexadecimal digits of a number, without leading zeros (none for 0)
Hex(n) == IF n = 0 THEN <<>> ELSE Append(Hex(n \div 16), HexDigits[(n % 16) + 1])

\* left-padding with zeros to a width
ZeroFill(cs, width) ==
    IF Len(cs) >= width THEN cs ELSE [k \in 1..(width - Len(cs)) |-> "0"] \o cs

rsa_encrypt_unpadded(key) ==
    Hex(ModPow(BigEndianMod(Bytes(Reverse(key)), Modulus), Exponent, Modulus))

\* the key, byte-reversed, raised to the exponent modulo the modulus, in hex
\* at twice the byte length of the modulus
rsa_encrypt(key) ==
    ZeroFill(Hex(ModPow(BigEndianMod(Bytes(Reverse(key)), Modulus), Exponent, Modulus)),
             2 * ModulusBytes)

\* Crypto::weapi: the two passes and the wrapped key, with the intermediate
\* base64 of the first pass kept beside them for the reverse path
weapi(text, key) ==
    LET first == aes_encrypt(text, Passphrase)
    IN [params |-> aes_encrypt(first, key), encSecKey |-> rsa_encrypt(key), first |-> first]

\* serde_json::to_string of the parameter map; its entries come in the order
\* the HashMap yields them
to_string(params) ==
    <<"{">>
    \o Join([k \in 1..Len(params) |->
                JsonString(params[k][1]) \o <<":">> \o JsonString(params[k][2])],
            <<",">>)
    \o <<"}">>

crypto_params_first_value(params, key) == weapi(params[1][2], key)

\* crypto_params: the map is serialised and handed to Crypto::weapi
crypto_params(params, key) == weapi(to_string(params), key)

\* ids signed for, besides those of the vendor's answers
SignedIds == {<<"1">>, <<"2">>, <<"3">>, U64Max}

\* the parameter maps of the three calls, in every order a map of two
\* entries can be walked
ParamMaps ==
    UNION { {dj_params(id), song_url_params(id), Reverse(song_url_params(id)),
             song_detail_params(id), Reverse(song_detail_params(id))} : id \in SignedIds }

\* random keys: sixteen characters of the alphanumeric alphabet
RandomKeys ==
    { <<"a", "a", "a", "a", "a", "a", "a", "a", "a", "a", "a", "a", "a", "a", "a", "a">>,
      <<"0", "1", "2", "3", "4", "5", "6", "7", "8", "9", "a", "b", "c", "d", "e", "f">>,
      <<"Z", "k", "3", "Q", "w", "9", "p", "L", "m", "N", "0", "x", "Y", "b", "7", "R">> }

\* a signing about to be made, for every parameter map and key
InitSign ==
    /\ url = <<>>
    /\ inv = <<>>
    /\ calls = <<>>
    /\ children = <<>>
    /\ probed = <<>>
    /\ Started
    /\ signing \in {[params |-> p, key |-> k, out |-> <<>>] : p \in ParamMaps, k \in RandomKeys}

\* crypto_params runs
CryptoParams ==
    /\ signing.params # <<>>
    /\ signing.out = <<>>
    /\ signing' = [signing EXCEPT !.out = <<crypto_params(signing.params, signing.key)>>]
    /\ UNCHANGED <<res_vars, cmd_vars>>

NextSign == CryptoParams

SpecSign == InitSign /\ [][NextSign]_vars

(* ------------------------------ properties ----------------------------- *)

EpDj == "dj/program/detail"
EpUrl == "song/enhance/player/url"
EpMeta == "song/detail"

Eps(tr) == [k \in 1..Len(tr) |-> tr[k].ep]

\* an answer that carries what was asked for: decoded, and not empty
Useful(q) ==
    /\ q.resp.st = "ok"
    /\ q.ep = EpUrl => q.resp.body[1].data # <<>>
    /\ q.ep = EpMeta => q.resp.body[1].songs # <<>>
    /\ q.ep = EpDj => /\ q.resp.body[1].program # <<>>
                      /\ q.resp.body[1].program[1].main_song # <<>>
                      /\ q.resp.body[1].program[1].main_song[1].id # <<>>

SpawnedBy(s) == {k \in 1..Len(children[s]) : children[s][k].call = calls[s]}

\* C1: a probe (lazy_init) never issues the stream-URL lookup, whatever the
\* reference is.
C1_ProbeNeverFetchesStreamUrl ==
    \A s \in Srcs :
        inv[s].op = "probe" => \A k \in 1..Len(inv[s].trace) : inv[s].trace[k].ep # EpUrl

\* C2: the url given to ffmpeg by a materialize is the first url of the
\* stream-URL answer received in that same invocation, and every materialize
\* that reaches the spawn has issued its own stream-URL lookup; no url of an
\* earlier invocation is passed on.
C2_FreshUrlPerMaterialize ==
    \A s \in Srcs :
        /\ \A c \in 1..Len(children[s]) :
             LET u == children[s][c].args.i
             IN /\ u.src = s
                /\ u.call = children[s][c].call
                /\ u.k = 1
        /\ \A c, d \in 1..Len(children[s]) :
             c # d => children[s][c].args.i # children[s][d].args.i
        /\ (inv[s].op = "mat" /\ (inv[s].pc = "spawn" \/ inv[s].res = "ok")) =>
             /\ Cardinality({k \in 1..Len(inv[s].trace) : inv[s].trace[k].ep = EpUrl}) = 1
             /\ \A k \in 1..Len(inv[s].trace) :
                  inv[s].trace[k].ep = EpUrl =>
                     inv[s].url = <<inv[s].trace[k].resp.body[1].data[1].url>>
        /\ (inv[s].op = "mat" /\ inv[s].res = "ok") =>
             /\ SpawnedBy(s) # {}
             /\ \A c \in SpawnedBy(s) : <<children[s][c].args.i>> = inv[s].url

C2_Witness ==
    \E s \in Srcs :
        /\ Len(children[s]) >= 2
        /\ children[s][1].args.ss # children[s][2].args.ss
        /\ inv[s].op = "mat" /\ inv[s].res = "ok"
        /\ Len(inv[s].urls) = 2

\* C4: for a program URL the stream-URL lookup is issued only after the
\* program-detail answer, and with the mainSong id of that answer (the id of
\* the URL goes to the program-detail request only).
C4_ProgramIsUnwrappedFirst ==
    \A s \in Srcs :
        contains_program(url[s]) =>
            \A k \in 1..Len(inv[s].trace) :
                LET q == inv[s].trace[k]
                IN /\ q.ep = EpUrl =>
                        /\ k = 2
                        /\ inv[s].trace[1].ep = EpDj
                        /\ Useful(inv[s].trace[1])
                        /\ <<q.id>> = inv[s].trace[1].resp.body[1].program[1].main_song[1].id
                   /\ q.ep = EpDj => /\ k = 1
                                     /\ get_music_id(url[s]) = Ok(q.id)

C4_Witness ==
    \E s \in Srcs :
        /\ contains_program(url[s])
        /\ Len(inv[s].trace) = 2
        /\ inv[s].trace[2].ep = EpUrl
        /\ get_music_id(url[s]) # Ok(inv[s].trace[2].id)

\* C5: resolving a program URL never asks for song/detail; the requests are
\* program-detail and then the stream-URL lookup, and the metadata of the
\* result is the one built from the mainSong of the program-detail answer.
C5_ProgramMetadataFromContainer ==
    \A s \in Srcs :
        contains_program(url[s]) =>
            /\ Eps(inv[s].trace) \in {<<>>, <<EpDj>>, <<EpDj, EpUrl>>}
            /\ inv[s].res = "ok" =>
                 /\ Eps(inv[s].trace) = <<EpDj, EpUrl>>
                 /\ inv[s].meta =
                      <<MetadataFromMainSong(inv[s].trace[1].resp.body[1].program[1].main_song[1])>>
                 /\ \A c \in SpawnedBy(s) : <<children[s][c].metadata>> = inv[s].meta

C5_Witness ==
    \E s \in Srcs :
        /\ contains_program(url[s])
        /\ inv[s].op = "mat" /\ inv[s].res = "ok"
        /\ SpawnedBy(s) # {}
        /\ inv[s].meta[1].title = <<"episode">>

\* C6: an answer with an empty payload (no data, no songs, no program, no
\* mainSong, no mainSong id) ends the invocation with an error: no panic, no
\* result, and urls[0] is read on non-empty lists only.
C6_EmptyPayloadIsError ==
    \A s \in Srcs :
        /\ inv[s].res # "panic"
        /\ inv[s].url # <<>> => inv[s].urls # <<>>
        /\ \A k \in 1..Len(inv[s].trace) :
             (inv[s].trace[k].resp.st = "ok" /\ ~Useful(inv[s].trace[k])) =>
                /\ inv[s].pc = "done"
                /\ inv[s].res = "err"
                /\ k = Len(inv[s].trace)
                /\ SpawnedBy(s) = {}

C6_Witness ==
    \E s \in Srcs :
        /\ inv[s].res = "err"
        /\ Len(inv[s].trace) = 1
        /\ inv[s].trace[1].ep = EpUrl
        /\ inv[s].trace[1].resp.st = "ok"
        /\ inv[s].trace[1].resp.body[1].data = <<>>

\* C7: a materialize spawns ffmpeg only when the stream url and the metadata
\* were both obtained; when the id extraction or a lookup fails it returns an
\* error, the failed lookup is its last request, and it has spawned nothing.
C7_SpawnOnlyAfterFullResolution ==
    \A s \in Srcs :
        /\ (inv[s].pc = "spawn" \/ SpawnedBy(s) # {}) =>
             /\ inv[s].op = "mat"
             /\ \A k \in 1..Len(inv[s].trace) : Useful(inv[s].trace[k])
             /\ \E k \in 1..Len(inv[s].trace) : inv[s].trace[k].ep = EpUrl
             /\ \E k \in 1..Len(inv[s].trace) : inv[s].trace[k].ep \in {EpMeta, EpDj}
             /\ inv[s].url # <<>> /\ inv[s].meta # <<>>
        /\ \A k \in 1..Len(inv[s].trace) :
             ~Useful(inv[s].trace[k]) =>
                /\ k = Len(inv[s].trace)
                /\ inv[s].res = "err"
                /\ SpawnedBy(s) = {}
        /\ (inv[s].op # "none" /\ ~get_music_id(url[s]).ok) =>
                /\ inv[s].trace = <<>>
                /\ inv[s].pc = "done" => inv[s].res = "err"
                /\ SpawnedBy(s) = {}
        /\ Cardinality(SpawnedBy(s)) <= 1

C7_Witness ==
    \E s \in Srcs :
        /\ inv[s].op = "mat"
        /\ inv[s].res = "err"
        /\ Len(inv[s].trace) = 2
        /\ inv[s].trace[2].ep = EpMeta
        /\ inv[s].trace[2].resp.st = "ok"
        /\ Len(children[s]) = 1

\* C9: no retries: an invocation asks each endpoint at most once, and a
\* request that failed is its last request and makes it return an error.
C9_NoRetries ==
    \A s \in Srcs :
        /\ \A k, j \in 1..Len(inv[s].trace) :
             k # j => inv[s].trace[k].ep # inv[s].trace[j].ep
        /\ \A k \in 1..Len(inv[s].trace) :
             inv[s].trace[k].resp.st # "ok" =>
                /\ k = Len(inv[s].trace)
                /\ inv[s].pc = "done"
                /\ inv[s].res = "err"

C9_Witness ==
    \E s \in Srcs :
        /\ inv[s].res = "err"
        /\ Len(inv[s].trace) = 2
        /\ inv[s].trace[2].resp.st = "neterr"

\* What a materialize of the URL u has to ask next once it has received the
\* answers rs, in this order, when it looks at nothing but u and rs.
RefNext(u, rs) ==
    LET idr == get_music_id(u)
        first == IF contains_program(u) THEN EpDj ELSE EpUrl
        second == IF contains_program(u) THEN EpUrl ELSE EpMeta
    IN IF ~idr.ok THEN <<>>
       ELSE IF Len(rs) = 0 THEN << [ep |-> first, id |-> idr.val[1]] >>
       ELSE IF Len(rs) = 1 /\ Useful(Request(first, idr.val[1], rs[1]))
            THEN << [ep |-> second,
                     id |-> IF contains_program(u)
                            THEN rs[1].body[1].program[1].main_song[1].id[1]
                            ELSE idr.val[1]] >>
       ELSE <<>>

\* The ffmpeg arguments and the metadata that follow from u, the offset and
\* the two answers rs.
RefInput(u, time, rs) ==
    LET ms == IF time = <<>> THEN 0 ELSE time[1]
        ur == IF contains_program(u) THEN rs[2] ELSE rs[1]
    IN [args |-> [ss |-> <<ms \div 1000, ms % 1000>>, i |-> ur.body[1].data[1].url,
                  acodec |-> "pcm_f32le", ac |-> 2, ar |-> 48000, f |-> "s16le"],
        metadata |-> IF contains_program(u)
                     THEN MetadataFromMainSong(rs[1].body[1].program[1].main_song[1])
                     ELSE MetadataFromSong(rs[2].body[1].songs[1])]

Resps(tr, n) == [k \in 1..n |-> tr[k].resp]

\* C10: whatever probes and materializes ran before on the source, the
\* requests of a materialize and the ffmpeg arguments and metadata it
\* produces are those determined by the URL, the offset and the answers it
\* received; metadata of an earlier probe is not used.
C10_MaterializeDependsOnInputsOnly ==
    \A s \in Srcs :
        inv[s].op = "mat" =>
            LET tr == inv[s].trace
            IN /\ \A k \in 1..Len(tr) :
                    RefNext(url[s], Resps(tr, k - 1)) = << [ep |-> tr[k].ep, id |-> tr[k].id] >>
               /\ inv[s].pc \in {"spawn", "done"} <=> RefNext(url[s], Resps(tr, Len(tr))) = <<>>
               /\ inv[s].res = "ok" =>
                    /\ SpawnedBy(s) # {}
                    /\ \A c \in SpawnedBy(s) :
                         [args |-> children[s][c].args, metadata |-> children[s][c].metadata]
                           = RefInput(url[s], inv[s].time, Resps(tr, Len(tr)))

C10_Witness ==
    \E s \in Srcs :
        /\ inv[s].op = "mat" /\ inv[s].res = "ok"
        /\ calls[s] = 3
        /\ Len(children[s]) = 1
        /\ probed[s] # <<>>
        /\ probed[s] # inv[s].meta

\* What a probe of the URL u has to ask next after the answers rs.
ProbeNext(u, rs) ==
    LET idr == get_music_id(u)
    IN IF ~idr.ok THEN <<>>
       ELSE IF ~contains_program(u)
            THEN (IF Len(rs) = 0 THEN << [ep |-> EpMeta, id |-> idr.val[1]] >> ELSE <<>>)
       ELSE IF Len(rs) = 0 THEN << [ep |-> EpDj, id |-> idr.val[1]] >>
       ELSE IF Len(rs) = 1 /\ Useful(Request(EpDj, idr.val[1], rs[1]))
            THEN << [ep |-> EpUrl, id |-> rs[1].body[1].program[1].main_song[1].id[1]] >>
       ELSE <<>>

OpNext(op, u, rs) == IF op = "mat" THEN RefNext(u, rs) ELSE ProbeNext(u, rs)

\* The outcome of the invocation on s is the one it has when it runs alone:
\* its requests, its error or its url and metadata follow from its own URL
\* and the answers to its own requests.
AloneOutcome(s) ==
    LET i == inv[s]
        tr == i.trace
        rs == Resps(tr, Len(tr))
        prog == contains_program(url[s])
    IN i.op # "none" =>
        /\ \A k \in 1..Len(tr) :
             OpNext(i.op, url[s], Resps(tr, k - 1)) = << [ep |-> tr[k].ep, id |-> tr[k].id] >>
        /\ i.pc = "done" => OpNext(i.op, url[s], rs) = <<>>
        /\ i.res # "panic"
        /\ i.res = "err" =>
             \/ ~get_music_id(url[s]).ok
             \/ Len(tr) > 0 /\ ~Useful(tr[Len(tr)])
             \/ i.op = "mat" /\ Len(tr) = 2 /\ SpawnedBy(s) = {}
        /\ i.res = "ok" =>
             /\ \A k \in 1..Len(tr) : Useful(tr[k])
             /\ i.op = "mat" =>
                  \A c \in SpawnedBy(s) :
                     [args |-> children[s][c].args, metadata |-> children[s][c].metadata]
                        = RefInput(url[s], i.time, rs)
             /\ i.meta = << IF prog
                            THEN MetadataFromMainSong(rs[1].body[1].program[1].main_song[1])
                            ELSE MetadataFromSong(rs[Len(rs)].body[1].songs[1]) >>
             /\ (i.op = "mat" \/ prog) =>
                  /\ i.url = << rs[IF prog THEN 2 ELSE 1].body[1].data[1].url >>
                  /\ i.url[1].src = s

\* C11: two resolutions of independent sources share no state: in every
\* interleaving of their steps the outcome of each (its requests, its error
\* or its url and metadata) is the outcome it has alone, determined by its
\* own URL and the answers to its own requests, also when the other failed.
C11_IndependentResolutions == \A s \in Srcs : AloneOutcome(s)

C11_Witness ==
    /\ Srcs = {"s1", "s2"}
    /\ inv["s1"].res = "err" /\ Len(inv["s1"].trace) = 1
    /\ inv["s2"].op = "mat" /\ inv["s2"].res = "ok"
    /\ inv["s1"].id = inv["s2"].id

\* C12: a probe spawns nothing: the list of children of a source grows only
\* in the spawn step of a materialize (call_restart), never while lazy_init
\* runs or returns.
C12_ProbeSpawnsNothing ==
    [][\A s \in Srcs :
          /\ children'[s] # children[s] =>
                /\ inv[s].op = "mat" /\ inv[s].pc = "spawn"
                /\ inv'[s].op = "mat" /\ inv'[s].res = "ok"
                /\ Len(children'[s]) = Len(children[s]) + 1
          /\ (inv[s].op = "probe" \/ inv'[s].op = "probe") => children'[s] = children[s]]_vars

C12_Witness ==
    \E s \in Srcs :
        /\ inv[s].op = "probe" /\ inv[s].res = "ok"
        /\ contains_program(url[s])
        /\ inv[s].url # <<>>
        /\ children[s] = <<>>

\* the id parameter of a URL: the first one named id, if any
IdParamOf(u) ==
    IF u.query = <<>> THEN <<>>
    ELSE LET ps == u.query[1]
             hits == {k \in 1..Len(ps) : ps[k].key = "id"}
         IN IF hits = {} THEN <<>>
            ELSE << ps[CHOOSE k \in hits : \A j \in hits : k <= j].val >>

\* the numerals of the unsigned 64-bit integers, leading zeros allowed
RECURSIVE StripZeros(_)
StripZeros(v) == IF Len(v) > 1 /\ v[1] = "0" THEN StripZeros(Tail(v)) ELSE v

IsU64Numeral(v) ==
    /\ v # <<>>
    /\ \A k \in 1..Len(v) : v[k] \in {"0", "1", "2", "3", "4", "5", "6", "7", "8", "9"}
    /\ LET n == StripZeros(v)
       IN \/ Len(n) < 20
          \/ Len(n) = 20 /\ ~LexLess(U64Max, n)

\* the id an invocation has extracted from the URL: the id of its first
\* request, or the id it holds before that request
ExtractedId(s) ==
    IF inv[s].trace # <<>> THEN inv[s].trace[1].id ELSE inv[s].id

\* C13: for a well-formed URL whose query has the parameter id=<n>, n the
\* numeral of a u64, the id extracted by get_music_id is n, with and without
\* the "/#" marker.
C13_IdOfValidUrl ==
    \A s \in Srcs :
        LET u == url[s]
            v == IdParamOf(u)
        IN (inv[s].op # "none" /\ u.wellformed /\ v # <<>> /\ IsU64Numeral(v[1])) =>
              /\ get_music_id(u) = Ok(StripZeros(v[1]))
              /\ ~(inv[s].trace = <<>> /\ inv[s].pc = "done")
              /\ ExtractedId(s) = StripZeros(v[1])

C13_Witness ==
    \E s \in Srcs :
        /\ url[s].hash /\ url[s].wellformed
        /\ url[s].query # <<>>
        /\ Len(url[s].query[1]) = 2
        /\ IdParamOf(url[s]) = <<U64Max>>
        /\ inv[s].trace # <<>>
        /\ inv[s].trace[1].id = U64Max

\* C14: get_music_id gives an error, and the invocation returns it before
\* any request, when the URL does not parse, has no query, has no id
\* parameter, or when the value of id is empty, has a character that is not
\* a digit (a sign, a letter, a dot) or is above u64::MAX.
C14_BadUrlIsError ==
    \A s \in Srcs :
        LET u == url[s]
            v == IdParamOf(u)
            bad == \/ ~u.wellformed
                   \/ u.query = <<>>
                   \/ v = <<>>
                   \/ v[1] = <<>>
                   \/ \E k \in 1..Len(v[1]) :
                        v[1][k] \notin {"0", "1", "2", "3", "4", "5", "6", "7", "8", "9"}
                          /\ ~(k = 1 /\ v[1][k] = "+" /\ Len(v[1]) > 1)
                   \/ ~IsU64Numeral(v[1]) /\ \A k \in 1..Len(v[1]) : IsDigit(v[1][k])
        IN (bad /\ inv[s].op # "none") =>
              /\ ~get_music_id(u).ok
              /\ inv[s].pc = "done" /\ inv[s].res = "err"
              /\ inv[s].trace = <<>>
              /\ inv[s].id = Idle.id
              /\ SpawnedBy(s) = {}

C14_Witness ==
    \E s \in Srcs :
        /\ url[s].wellformed
        /\ IdParamOf(url[s]) = << <<"1", "8", "4", "4", "6", "7", "4", "4", "0", "7", "3", "7", "0", "9", "5", "5", "1", "6", "1", "6">> >>
        /\ inv[s].op = "mat"
        /\ inv[s].res = "err"

\* C15 as claimed: a URL whose path is the program path is classified as Dj
\* and a URL whose path is the song path as Normal, by lazy_init and by
\* _netease.
C15_PathDecidesKind ==
    \A s \in Srcs :
        inv[s].op # "none" =>
            /\ url[s].path = "program" => inv[s].t = "Dj"
            /\ url[s].path = "song" => inv[s].t = "Normal"

\* C15 as amended: a URL is classified as Dj exactly when its text contains
\* "program" anywhere, by lazy_init and by _netease alike; so a URL with the
\* program path is Dj, and a song URL is Normal unless "program" occurs
\* elsewhere in it.
C15_SubstringDecidesKind ==
    \A s \in Srcs :
        inv[s].op # "none" =>
            /\ inv[s].t = "Dj" <=>
                 \/ url[s].path = "program"
                 \/ url[s].query # <<>> /\
                      \E k \in 1..Len(url[s].query[1]) :
                         url[s].query[1][k].val = Spell.program
            /\ url[s].path = "program" => inv[s].t = "Dj"

C15_Witness ==
    \E s \in Srcs :
        /\ url[s].path = "song"
        /\ inv[s].op = "probe"
        /\ inv[s].t = "Dj"
        /\ inv[s].trace # <<>>

(* ----------------------------- C16 ------------------------------------- *)

\* the parameter map a call to endpoint ep about id builds
ParamsFor(ep, id) ==
    CASE ep = EpDj -> dj_params(id)
      [] ep = EpUrl -> song_url_params(id)
      [] ep = EpMeta -> song_detail_params(id)

\* the requests sent so far by the running or last invocation of each source
SentQueries ==
    UNION {{<<s, k>> : k \in 1..Len(inv[s].trace)} : s \in Srcs}

\* C16: every POST carries the output of one run of the signing made for that
\* very call on that call's parameter map: the query of the k-th request of
\* an invocation is the result of the crypto_params run of that invocation
\* and position (so it was not made earlier and kept), applied to the
\* parameters of that endpoint and id; and no two requests carry the same
\* signed query.
C16_OneSigningPerPost ==
    /\ \A s \in Srcs : \A k \in 1..Len(inv[s].trace) :
          LET q == inv[s].trace[k]
          IN /\ q.query.run = <<s, calls[s], k>>
             /\ q.query.of = ParamsFor(q.ep, q.id)
    /\ \A a, b \in SentQueries :
          a # b => inv[a[1]].trace[a[2]].query # inv[b[1]].trace[b[2]].query

C16_Witness ==
    \E s \in Srcs :
        /\ calls[s] >= 2
        /\ Len(inv[s].trace) >= 2
        /\ inv[s].trace[1].ep = EpDj
        /\ inv[s].trace[2].ep = EpUrl
        /\ inv[s].trace[1].query.of # inv[s].trace[2].query.of

(* ----------------------------- C17 ------------------------------------- *)

\* a written volume that is a number and not one of 0 to 200
OutOfRange(arg) ==
    /\ parse_f32(arg).ok
    /\ LET v == parse_f32(arg).val[1]
       IN ~(v.kind = "fin" /\ v.m >= 0 /\ v.m <= 200 * 1000)

\* every stored volume is a number from 0.0 to 2.0
TableInRange ==
    \A c \in Channels :
        song_volume[c] # <<>> =>
            LET v == song_volume[c][1]
            IN v.kind = "fin" /\ v.m >= 0 /\ v.m <= 2 * 1000

\* C17: after any sequence of play, vol and leave (and the other commands)
\* every value of the SongVolume table lies in [0.0, 2.0], and a vol command
\* whose argument is outside 0..200 leaves the table and the volume of every
\* track as they were.
C17_VolumeWithinRange ==
    [][/\ TableInRange'
       /\ (last'.name = "vol" /\ OutOfRange(last'.arg)) =>
             (song_volume' = song_volume /\ handler' = handler)]_vars

C17_Witness ==
    /\ last.name = "vol"
    /\ OutOfRange(last.arg)
    /\ handler # <<>>
    /\ Len(handler[1]) = 2
    /\ \E c \in Channels : song_volume[c] = <<Fin(2000)>>
    /\ \E c \in Channels : song_volume[c] = <<Fin(0)>>

(* ----------------------------- C18 ------------------------------------- *)

\* C18: every command the help text lists is a command of the group and
\* does what the text says: a listed name is never left without a handler,
\* and once ~clean has run in a guild with a call, the queue is empty.
C18_AdvertisedCommandsWork ==
    /\ last.name \in Advertised => last.outcome # "unrecognised"
    /\ (last.name = "clean" /\ handler # <<>>) => handler[1] = <<>>

(* ----------------------------- C19 ------------------------------------- *)

IsHex(c) == \E k \in 1..16 : HexDigits[k] = c

\* C19: for every parameter map and every random key, the encSecKey of the
\* signed request is exactly 256 hexadecimal characters.
C19_EncSecKeyWidth ==
    signing.out # <<>> =>
        LET k == signing.out[1].encSecKey
        IN Len(k) = 256 /\ \A i \in 1..Len(k) : IsHex(k[i])

C19_Witness ==
    /\ signing.out # <<>>
    /\ signing.out[1].encSecKey[1] = "0"
    /\ signing.out[1].encSecKey[256] # "0"

(* ----------------------------- C20 ------------------------------------- *)

C21_TracksAtStoredVolume ==
    (/\ playing[OneChannel] = <<>>
     /\ handler # <<>>
     /\ song_volume[OneChannel] # <<>>) =>
        \A k \in 1..Len(handler[1]) :
            handler[1][k].volume = song_volume[OneChannel][1]

(* ----------------------------- C22 ------------------------------------- *)

\* C22: now never panics: on an empty queue it answers and returns without
\* reading the first entry of the queue.
C22_NowNeverPanics ==
    last.name = "now" => last.outcome # "panic"

(* ----------------------------- C23 ------------------------------------- *)

\* C23: the program-unwrap request goes to the base URL followed by
\* /dj/program/detail, with one slash between them.
C23_DjDetailUrl ==
    \A s \in Srcs : \A k \in 1..Len(inv[s].trace) :
        inv[s].trace[k].ep = EpDj =>
            inv[s].trace[k].url = BASE_URL \o <<"/", "d", "j", "/", "p", "r", "o", "g", "r", "a", "m", "/", "d", "e", "t", "a", "i", "l">>

(* ----------------------------- C24 ------------------------------------- *)

\* the answers of an invocation to the requests that carry metadata
MetaAnswers(s) ==
    {<<inv[s].trace[k].ep, inv[s].trace[k].resp>> :
        k \in {j \in 1..Len(inv[s].trace) : inv[s].trace[j].ep \in {EpDj, EpMeta}}}

\* the invocation on s stopped at get_music_id
NoId(s) == inv[s].pc = "done" /\ inv[s].trace = <<>>

\* C24: a probe and a materialize of the same URL agree: they classify the
\* URL alike and extract the same id (or both fail to), and when both
\* succeed on the same answers of the vendor, the metadata the probe
\* returned is the metadata the materialize attached to its audio source.
C24_ProbeAgreesWithMaterialize ==
    \A s, t \in Srcs :
        (url[s] = url[t] /\ inv[s].op = "probe" /\ inv[t].op = "mat") =>
            /\ inv[s].t = inv[t].t
            /\ NoId(s) <=> NoId(t)
            /\ ExtractedId(s) = ExtractedId(t)
            /\ (/\ inv[s].res = "ok"
                /\ inv[t].res = "ok"
                /\ MetaAnswers(s) = MetaAnswers(t)) =>
                   /\ probed[s] = inv[s].meta
                   /\ \A c \in SpawnedBy(t) : <<children[t][c].metadata>> = probed[s]

C24_Witness ==
    \E s, t \in Srcs :
        /\ url[s] = url[t]
        /\ url[s].path = "program"
        /\ inv[s].op = "probe" /\ inv[s].res = "ok"
        /\ inv[t].op = "mat" /\ inv[t].res = "ok"
        /\ MetaAnswers(s) = MetaAnswers(t)
        /\ SpawnedBy(t) # {}
        /\ probed[s] # <<>>
        /\ probed[s][1].title # <<>>

(* ----------------------------- C25 ------------------------------------- *)

\* the index written after ~skip, when it is a number
SkipIndex(arg) == IF arg # <<>> /\ AllDigits(arg) THEN <<NatOf(arg)>> ELSE <<>>

\* the queue without its n-th track, counted from 1
WithoutNth(q, n) == [k \in 1..(Len(q) - 1) |-> IF k < n THEN q[k] ELSE q[k + 1]]

\* C25: skip with a number removes exactly the track at that position,
\* counted from 1, when the number is from 1 to the length of the queue, and
\* leaves the other tracks and their order as they were; with 0 or a number
\* above the length it leaves the queue as it was.
C25_SkipRemovesExactlyOne ==
    [][(last'.name = "skip" /\ SkipIndex(last'.arg) # <<>> /\ handler # <<>>) =>
          LET n == SkipIndex(last'.arg)[1]
              q == handler[1]
          IN /\ handler' # <<>>
             /\ handler'[1] = IF 1 <= n /\ n <= Len(q) THEN WithoutNth(q, n) ELSE q]_vars

\* a skip has taken the first of two tracks of different volume
C25_Witness ==
    /\ last.name = "skip"
    /\ last.arg = <<"1">>
    /\ last.outcome = "ok"
    /\ handler = << << Track(Fin(1000)) >> >>
    /\ song_volume[OneChannel] = << Fin(2000) >>

(* ----------------------------- C26 ------------------------------------- *)

\* the written volume has an 'e' or 'E', a '-' or a '+' in it
HasExponentOrSign(arg) ==
    \E k \in 1..Len(arg) : arg[k] \in {"e", "E", "-", "+"}

\* C26: a vol argument with 'e', 'E', '-' or '+' in it is rejected: the
\* stored volume of the channel and the volume of every queued track are
\* after the command what they were before.
C26_ExponentOrSignRejected ==
    [][(last'.name = "vol" /\ HasExponentOrSign(last'.arg)) =>
          (song_volume' = song_volume /\ handler' = handler)]_vars

====
